---- MODULE Spec2Model ----
(***************************************************************************)
(* A model of forza: the conversion of a generation-service response into  *)
(* a balance-sheet report (tools.py: extract_json, write_to_pdf) and the   *)
(* web application that runs it (app.py: upload_file, download_pdf).       *)
(*                                                                         *)
(* Python values are tagged records (kind = "obj", "arr", "str", "num",    *)
(* "bool", "null"); a dict keeps its members in insertion order.  Numbers  *)
(* are integers (Python int: exact sums).  A text is a sequence of tokens: *)
(* a token is one structural character, one digit, one whitespace          *)
(* character, or a word: a run of other characters that holds no brace,    *)
(* bracket, quote, colon, comma or backslash and neither starts nor ends   *)
(* with whitespace.                                                        *)
(***************************************************************************)
EXTENDS Integers, Sequences, FiniteSets, TLC

VARIABLES
    data_dict,   \* write_to_pdf's argument under construction (SpecRender)
    rendered,    \* what write_to_pdf(data_dict) did (SpecRender)
    json_str,    \* the generation service's response (SpecConvert)
    conversion,  \* what the pipeline did with json_str (SpecConvert)
    stage,       \* per request: how far upload_file got (SpecApp)
    result_json, \* per request: upload_file's local result_json (SpecApp)
    outcome,     \* per request: what the conversion did (SpecApp)
    response,    \* per request: the last HTTP response it received (SpecApp)
    pdf_file     \* the file /tmp/reclassified_output.pdf (SpecApp)

vars == <<data_dict, rendered, json_str, conversion, stage, result_json,
          outcome, response, pdf_file>>

----------------------------------------------------------------------------
(* Python values *)

Num(n) == [kind |-> "num", n |-> n]
\* True and False are the integers 1 and 0 in arithmetic and in formatting
Bool(b) == [kind |-> "bool", n |-> IF b THEN 1 ELSE 0]
IsNumber(v) == v.kind \in {"num", "bool"}
Str(s) == [kind |-> "str", s |-> s]
Null == [kind |-> "null"]
Arr(elems) == [kind |-> "arr", elems |-> elems]
Obj(members) == [kind |-> "obj", members |-> members]
Member(key, val) == [key |-> key, val |-> val]

\* key in d
Has(d, key) == \E i \in 1..Len(d.members) : d.members[i].key = key

\* d[key], for a key that is in d
Lookup(d, key) ==
    d.members[CHOOSE i \in 1..Len(d.members) : d.members[i].key = key].val

\* d.get(key, default)
Get(d, key, default) == IF Has(d, key) THEN Lookup(d, key) ELSE default

\* d[key] = val: a new key goes last, a known key keeps its place
SetItem(d, key, val) ==
    IF Has(d, key)
    THEN Obj([i \in 1..Len(d.members) |->
                 IF d.members[i].key = key THEN Member(key, val)
                 ELSE d.members[i]])
    ELSE Obj(Append(d.members, Member(key, val)))

\* bool(v), as in "if items:"
Truthy(v) ==
    CASE v.kind = "arr" -> Len(v.elems) > 0
      [] v.kind = "obj" -> Len(v.members) > 0
      [] v.kind = "str" -> v.s # ""
      [] IsNumber(v) -> v.n # 0
      [] OTHER -> FALSE

----------------------------------------------------------------------------
(* f"{amount:,.2f}" of an integer: sign, digits in groups of three, ".00" *)

DigitChar(d) == ToString(d)

RECURSIVE Grouped(_)
\* the digits of n >= 0, a comma before every group of three but the first
Grouped(n) ==
    IF n < 1000 THEN
        IF n < 10 THEN <<DigitChar(n)>>
        ELSE IF n < 100 THEN <<DigitChar(n \div 10), DigitChar(n % 10)>>
        ELSE <<DigitChar(n \div 100), DigitChar((n \div 10) % 10), DigitChar(n % 10)>>
    ELSE Grouped(n \div 1000) \o
         <<",", DigitChar((n \div 100) % 10), DigitChar((n \div 10) % 10),
           DigitChar(n % 10)>>

Format2f(n) ==
    (IF n < 0 THEN <<"-">> ELSE <<>>) \o Grouped(IF n < 0 THEN -n ELSE n)
        \o <<".", "0", "0">>

----------------------------------------------------------------------------
(* reportlab flowables, as write_to_pdf appends them to elements *)

Paragraph(text, style) == [kind |-> "Paragraph", text |-> text, style |-> style]
Spacer(height) == [kind |-> "Spacer", height |-> height]
Table(rows) == [kind |-> "Table", rows |-> rows]
PageBreak == [kind |-> "PageBreak"]
Row(label, amount) == [label |-> label, amount |-> amount]

NoError == "none"
Outcome(exc, elements) == [exc |-> exc, elements |-> elements]

\* ItemError with item["label"] and item["amount"] for item.get(...)
ItemErrorKeyed(item) ==
    IF item.kind # "obj" THEN "TypeError"
    ELSE IF ~Has(item, "label") \/ ~Has(item, "amount") THEN "KeyError"
    ELSE IF IsNumber(Lookup(item, "amount")) THEN NoError
    ELSE IF Lookup(item, "amount").kind = "str" THEN "ValueError"
    ELSE "TypeError"

\* the exception of "for item in items: item.get(...); f'{amount:,.2f}'" on one item
ItemError(item) ==
    IF item.kind # "obj" THEN "AttributeError"
    ELSE LET amount == Get(item, "amount", Num(0)) IN
         IF IsNumber(amount) THEN NoError
         ELSE IF amount.kind = "str" THEN "ValueError"
         ELSE "TypeError"

\* what "for item in items" iterates over; a dict gives its keys, a str its characters
Iterable(items) == items.kind \in {"arr", "obj", "str"}
Iterate(items) ==
    CASE items.kind = "arr" -> items.elems
      [] items.kind = "obj" -> [i \in 1..Len(items.members) |-> Str(items.members[i].key)]
      [] OTHER -> [i \in 1..Len(items.s) |-> Str("c")]

RECURSIVE SumFrom(_, _)
\* sum(item.get("amount", 0) for item in items), from item i on
SumFrom(elems, i) ==
    IF i > Len(elems) THEN 0
    ELSE Get(elems[i], "amount", Num(0)).n + SumFrom(elems, i + 1)

\* the first exception of sum(item.get("amount", 0) for item in items)
SumError(items) ==
    IF ~Iterable(items) THEN "TypeError"
    ELSE LET elems == Iterate(items)
             bad == {i \in 1..Len(elems) : elems[i].kind # "obj"}
             odd == {i \in 1..Len(elems) :
                        elems[i].kind = "obj"
                        /\ ~IsNumber(Get(elems[i], "amount", Num(0)))}
         IN  IF bad # {} /\ (odd = {} \/ \A j \in odd : \E i \in bad : i < j)
             THEN "AttributeError"
             ELSE IF odd # {} THEN "TypeError" ELSE NoError

\* CategoryTable with the item rows in reverse order
CategoryTableReversed(items) ==
    IF ~Iterable(items) THEN Outcome("TypeError", <<>>)
    ELSE
    LET elems == Iterate(items)
        bad == {i \in 1..Len(elems) : ItemError(elems[i]) # NoError}
    IN  IF bad # {}
        THEN Outcome(ItemError(elems[CHOOSE i \in bad : \A j \in bad : i <= j]), <<>>)
        ELSE
        LET header == Row(Str("Description"), <<"Amount (€)">>)
            item_rows == [i \in 1..Len(elems) |->
                Row(Get(elems[Len(elems) + 1 - i], "label", Str("")),
                    Format2f(Get(elems[Len(elems) + 1 - i], "amount", Num(0)).n))]
            subtotal == SumFrom(elems, 1)
        IN  Outcome(NoError,
                <<Table(<<header>> \o item_rows
                        \o <<Row(Str("Subtotal"), Format2f(subtotal))>>)>>)

\* lines 169-179: the table of one category whose items are truthy
CategoryTable(items) ==
    IF ~Iterable(items) THEN Outcome("TypeError", <<>>)
    ELSE
    LET elems == Iterate(items)
        bad == {i \in 1..Len(elems) : ItemError(elems[i]) # NoError}
    IN  IF bad # {}
        THEN Outcome(ItemError(elems[CHOOSE i \in bad : \A j \in bad : i <= j]), <<>>)
        ELSE
        LET header == Row(Str("Description"), <<"Amount (€)">>)
            item_rows == [i \in 1..Len(elems) |->
                Row(Get(elems[i], "label", Str("")),
                    Format2f(Get(elems[i], "amount", Num(0)).n))]
            subtotal == SumFrom(elems, 1)
        IN  Outcome(NoError,
                <<Table(<<header>> \o item_rows
                        \o <<Row(Str("Subtotal"), Format2f(subtotal))>>)>>)

RECURSIVE CategoryLoopAll(_, _)
\* CategoryLoop without "if items:"
CategoryLoopAll(members, i) ==
    IF i > Len(members) THEN Outcome(NoError, <<>>)
    ELSE
    LET category_header == Paragraph(members[i].key, "SubsectionTitle")
        table == CategoryTable(members[i].val)
    IN  IF table.exc # NoError
        THEN Outcome(table.exc, <<category_header>>)
        ELSE LET rest == CategoryLoopAll(members, i + 1)
             IN  Outcome(rest.exc,
                    <<category_header>> \o table.elements
                        \o <<Spacer("0.3cm")>> \o rest.elements)

RECURSIVE CategoryLoop(_, _)
\* lines 163-209: "for category, items in section.items()", from member i on
CategoryLoop(members, i) ==
    IF i > Len(members) THEN Outcome(NoError, <<>>)
    ELSE
    LET category == members[i].key
        items == members[i].val
    IN  IF ~Truthy(items) THEN CategoryLoop(members, i + 1)
        ELSE
        LET category_header == Paragraph(category, "SubsectionTitle")
            table == CategoryTable(items)
        IN  IF table.exc # NoError
            THEN Outcome(table.exc, <<category_header>>)
            ELSE LET rest == CategoryLoop(members, i + 1)
                 IN  Outcome(rest.exc,
                        <<category_header>> \o table.elements
                            \o <<Spacer("0.3cm")>> \o rest.elements)

RECURSIVE TotalLoopAssign(_, _)
\* TotalLoop with "total = sum(...)" for "total += sum(...)"
TotalLoopAssign(members, i) ==
    IF i > Len(members) THEN [exc |-> NoError, n |-> 0]
    ELSE IF SumError(members[i].val) # NoError
    THEN [exc |-> SumError(members[i].val), n |-> 0]
    ELSE LET rest == TotalLoopAssign(members, i + 1)
         IN  [exc |-> rest.exc,
              n |-> IF i = Len(members) THEN SumFrom(Iterate(members[i].val), 1)
                    ELSE rest.n]

RECURSIVE TotalLoop(_, _)
\* lines 212-214: "total += sum(...)" over every category, from member i on
TotalLoop(members, i) ==
    IF i > Len(members) THEN [exc |-> NoError, n |-> 0]
    ELSE IF SumError(members[i].val) # NoError
    THEN [exc |-> SumError(members[i].val), n |-> 0]
    ELSE LET rest == TotalLoop(members, i + 1)
         IN  [exc |-> rest.exc,
              n |-> SumFrom(Iterate(members[i].val), 1) + rest.n]

\* Section with "if data_dict.get(key):" for "if key in data_dict:"
SectionIfTruthy(data, key, title, banner) ==
    IF ~Has(data, key) \/ ~Truthy(Lookup(data, key)) THEN Outcome(NoError, <<>>)
    ELSE
    LET section_title == Paragraph(title, "SectionTitle")
        section == Lookup(data, key)
    IN  IF section.kind # "obj"
        THEN Outcome("AttributeError", <<section_title>>)
        ELSE
        LET categories == CategoryLoop(section.members, 1)
            total == TotalLoop(section.members, 1)
        IN  IF categories.exc # NoError
            THEN Outcome(categories.exc, <<section_title>> \o categories.elements)
            ELSE IF total.exc # NoError
            THEN Outcome(total.exc, <<section_title>> \o categories.elements)
            ELSE Outcome(NoError,
                    <<section_title>> \o categories.elements
                        \o <<Table(<<Row(Str(banner), Format2f(total.n))>>)>>)

\* lines 159-226 and 232-299: one section, if data_dict has it
Section(data, key, title, banner) ==
    IF ~Has(data, key) THEN Outcome(NoError, <<>>)
    ELSE
    LET section_title == Paragraph(title, "SectionTitle")
        section == Lookup(data, key)
    IN  IF section.kind # "obj"
        THEN Outcome("AttributeError", <<section_title>>)
        ELSE
        LET categories == CategoryLoop(section.members, 1)
            total == TotalLoop(section.members, 1)
        IN  IF categories.exc # NoError
            THEN Outcome(categories.exc, <<section_title>> \o categories.elements)
            ELSE IF total.exc # NoError
            THEN Outcome(total.exc, <<section_title>> \o categories.elements)
            ELSE Outcome(NoError,
                    <<section_title>> \o categories.elements
                        \o <<Table(<<Row(Str(banner), Format2f(total.n))>>)>>)

AttivoSection(data) == Section(data, "ATTIVO", "ATTIVO (Assets)", "TOTAL ATTIVO")

PassivoSection(data) ==
    Section(data, "PASSIVO", "PASSIVO (Liabilities & Equity)", "TOTAL PASSIVO")

Title == Paragraph("Reclassified Balance Sheet - Article 2424 CEE", "CustomTitle")

\* write_to_pdf with the page break inside 'if "PASSIVO" in data_dict'
WriteToPdfBreakInPassivo(data) ==
    LET head == <<Title, Spacer("0.5cm")>>
        attivo == AttivoSection(data)
    IN  IF attivo.exc # NoError
        THEN Outcome(attivo.exc, head \o attivo.elements)
        ELSE
        LET passivo == PassivoSection(data)
        IN  Outcome(passivo.exc,
                head \o attivo.elements
                    \o (IF Has(data, "PASSIVO") THEN <<PageBreak>> ELSE <<>>)
                    \o passivo.elements)

\* write_to_pdf(data_dict, output_path): the elements it hands to doc.build, or the
\* exception it raises and the elements appended until then
write_to_pdf(data) ==
    LET head == <<Title, Spacer("0.5cm")>>
        attivo == AttivoSection(data)
    IN  IF attivo.exc # NoError
        THEN Outcome(attivo.exc, head \o attivo.elements)
        ELSE
        LET passivo == PassivoSection(data)
        IN  Outcome(passivo.exc,
                head \o attivo.elements \o <<PageBreak>> \o passivo.elements)

----------------------------------------------------------------------------
(* extract_json: strip, re.search(r"\{.*\}", ..., re.DOTALL), json.loads *)

Whitespace == {" ", "\t", "\n", "\r"}
Digits == {"0", "1", "2", "3", "4", "5", "6", "7", "8", "9"}

RECURSIVE LStrip(_, _)
LStrip(text, chars) ==
    IF text # <<>> /\ Head(text) \in chars THEN LStrip(Tail(text), chars) ELSE text

RECURSIVE RStrip(_, _)
RStrip(text, chars) ==
    IF text # <<>> /\ text[Len(text)] \in chars
    THEN RStrip(SubSeq(text, 1, Len(text) - 1), chars) ELSE text

\* text.strip(chars)
Strip(text, chars) == RStrip(LStrip(text, chars), chars)

\* Search with the non-greedy pattern r"\{.*?\}": to the first "}" after the "{"
SearchNonGreedy(text) ==
    LET opens == {i \in 1..Len(text) : text[i] = "{"}
        first == CHOOSE i \in opens : \A j \in opens : i <= j
        closes == {j \in 1..Len(text) : text[j] = "}" /\ j > first}
        last == CHOOSE j \in closes : \A k \in closes : j <= k
    IN  IF opens = {} \/ closes = {} THEN <<>> ELSE SubSeq(text, first, last)

\* re.search(r"\{.*\}", text, re.DOTALL): from the first "{" to the last "}" after
\* it; the empty sequence when there is no match
Search(text) ==
    LET opens == {i \in 1..Len(text) : text[i] = "{"}
        first == CHOOSE i \in opens : \A j \in opens : i <= j
        closes == {j \in 1..Len(text) : text[j] = "}" /\ j > first}
        last == CHOOSE j \in closes : \A k \in closes : k <= j
    IN  IF opens = {} \/ closes = {} THEN <<>> ELSE SubSeq(text, first, last)

Parsed(val, next) == [ok |-> TRUE, val |-> val, next |-> next]
Malformed == [ok |-> FALSE, val |-> Null, next |-> 0]

RECURSIVE SkipWhitespace(_, _)
\* the first position from i on that holds no whitespace
SkipWhitespace(s, i) ==
    IF i <= Len(s) /\ s[i] \in Whitespace THEN SkipWhitespace(s, i + 1) ELSE i

RECURSIVE Joined(_, _, _)
\* the characters of s[i..j] as one string
Joined(s, i, j) == IF i > j THEN "" ELSE s[i] \o Joined(s, i + 1, j)

\* a string literal whose opening quote is s[i]; a raw control character ends it
\* in error
ParseString(s, i) ==
    LET quotes == {j \in (i + 1)..Len(s) : s[j] = "\""}
        close == CHOOSE j \in quotes : \A k \in quotes : j <= k
    IN  IF quotes = {} THEN Malformed
        ELSE IF \E k \in (i + 1)..(close - 1) : s[k] \in {"\t", "\n", "\r"}
        THEN Malformed
        ELSE Parsed(Str(Joined(s, i + 1, close - 1)), close + 1)

RECURSIVE DigitsEnd(_, _)
\* the first position from i on that holds no digit
DigitsEnd(s, i) == IF i <= Len(s) /\ s[i] \in Digits THEN DigitsEnd(s, i + 1) ELSE i

RECURSIVE Decimal(_, _, _, _)
\* the number the digits s[i..j-1] write, after acc
Decimal(s, i, j, acc) ==
    IF i >= j THEN acc
    ELSE Decimal(s, i + 1, j, 10 * acc + (CHOOSE d \in 0..9 : ToString(d) = s[i]))

\* an integer literal at s[i]: -?(0|[1-9][0-9]*)
ParseNumber(s, i) ==
    LET start == IF s[i] = "-" THEN i + 1 ELSE i
        end == IF start <= Len(s) /\ s[start] = "0" THEN start + 1
               ELSE DigitsEnd(s, start)
    IN  IF end = start THEN Malformed
        ELSE Parsed(Num(IF s[i] = "-" THEN 0 - Decimal(s, start, end, 0)
                        ELSE Decimal(s, start, end, 0)),
                    end)

RECURSIVE ParseValue(_, _)
RECURSIVE ParseMembers(_, _, _)
RECURSIVE ParseElements(_, _, _)

\* the JSON value that starts at s[i]
ParseValue(s, i) ==
    IF i > Len(s) THEN Malformed
    ELSE IF s[i] = "{" THEN
        LET j == SkipWhitespace(s, i + 1)
        IN  IF j <= Len(s) /\ s[j] = "}" THEN Parsed(Obj(<<>>), j + 1)
            ELSE ParseMembers(s, j, Obj(<<>>))
    ELSE IF s[i] = "[" THEN
        LET j == SkipWhitespace(s, i + 1)
        IN  IF j <= Len(s) /\ s[j] = "]" THEN Parsed(Arr(<<>>), j + 1)
            ELSE ParseElements(s, j, <<>>)
    ELSE IF s[i] = "\"" THEN ParseString(s, i)
    ELSE IF s[i] = "null" THEN Parsed(Null, i + 1)
    ELSE IF s[i] = "true" THEN Parsed(Bool(TRUE), i + 1)
    ELSE IF s[i] = "false" THEN Parsed(Bool(FALSE), i + 1)
    ELSE IF s[i] \in Digits \cup {"-"} THEN ParseNumber(s, i)
    ELSE Malformed

\* the members of an object from the key at s[i] on, after those of dict
ParseMembers(s, i, dict) ==
    IF i > Len(s) \/ s[i] # "\"" THEN Malformed
    ELSE
    LET key == ParseString(s, i)
        colon == SkipWhitespace(s, key.next)
    IN  IF ~key.ok \/ colon > Len(s) \/ s[colon] # ":" THEN Malformed
        ELSE
        LET value == ParseValue(s, SkipWhitespace(s, colon + 1))
            end == SkipWhitespace(s, value.next)
        IN  IF ~value.ok \/ end > Len(s) THEN Malformed
            ELSE IF s[end] = "}"
            THEN Parsed(SetItem(dict, key.val.s, value.val), end + 1)
            ELSE IF s[end] = ","
            THEN ParseMembers(s, SkipWhitespace(s, end + 1),
                              SetItem(dict, key.val.s, value.val))
            ELSE Malformed

\* the elements of an array from the value at s[i] on, after elems
ParseElements(s, i, elems) ==
    LET value == ParseValue(s, i)
        end == SkipWhitespace(s, value.next)
    IN  IF ~value.ok \/ end > Len(s) THEN Malformed
        ELSE IF s[end] = "]" THEN Parsed(Arr(Append(elems, value.val)), end + 1)
        ELSE IF s[end] = ","
        THEN ParseElements(s, SkipWhitespace(s, end + 1), Append(elems, value.val))
        ELSE Malformed

\* json.loads(s): one value, whitespace around it, nothing after it
json_loads(s) ==
    LET value == ParseValue(s, SkipWhitespace(s, 1))
    IN  IF value.ok /\ SkipWhitespace(s, value.next) > Len(s) THEN value
        ELSE Malformed

Extraction(exc, value) == [exc |-> exc, value |-> value]

\* extract_json(json_str): the parsed object, or the exception raised
extract_json(text) ==
    LET cleaned == Strip(Strip(Strip(text, {"'"}), {"\""}), Whitespace)
        match == Search(cleaned)
    IN  IF match # <<>>
        THEN IF json_loads(match).ok THEN Extraction(NoError, json_loads(match).val)
             ELSE Extraction("JSONDecodeError", Null)
        ELSE Extraction("ValueError", Null)

----------------------------------------------------------------------------
(* the pipeline: result_json = extract_json(result_json);
   write_to_pdf(result_json, pdf_path) *)

NoReport == <<>>

Converted(raised, calls, value, report) ==
    [raised |-> raised, calls |-> calls, value |-> value, report |-> report]

NotConverted == Converted("not called", <<>>, Null, NoReport)

\* the outcome of the write_to_pdf call on the parsed object
Rendering(value, pdf) ==
    Converted(pdf.exc, <<"extract_json", "write_to_pdf">>, value,
              IF pdf.exc = NoError THEN pdf.elements ELSE NoReport)

\* the statements after extract_json has returned or raised
AfterExtraction(parsed) ==
    IF parsed.exc # NoError
    THEN Converted(parsed.exc, <<"extract_json">>, Null, NoReport)
    ELSE Rendering(parsed.value, write_to_pdf(parsed.value))

\* the same with the extraction error caught and an empty document rendered
AfterExtractionWithDefault(parsed) ==
    IF parsed.exc # NoError
    THEN Rendering(Obj(<<>>), write_to_pdf(Obj(<<>>)))
    ELSE Rendering(parsed.value, write_to_pdf(parsed.value))

\* Conversion with the extraction error caught and an empty document rendered
ConversionWithDefault(text) == AfterExtractionWithDefault(extract_json(text))

\* what the two calls do with a response: the exception that leaves the caller
\* (NoError when none), the calls made, the parsed object, and the report that
\* doc.build wrote (NoReport when it wrote none)
Conversion(text) == AfterExtraction(extract_json(text))

----------------------------------------------------------------------------
(* SpecRender: write_to_pdf on every document of a bounded size *)

MaxItems == 2

SectionKeys == {"ATTIVO", "PASSIVO"}
CategoryNames == {"A) Patrimonio netto", "D) Debiti"}
Amounts == {-1000, 1000}

LabelledItem(amount) ==
    Obj(<<Member("label", Str("Software")), Member("amount", amount)>>)

\* the records a category may hold: well-formed ones, one without an amount, one
\* without a label whose amount is 0, and one whose amount is a string
ItemChoices ==
    {LabelledItem(Num(a)) : a \in Amounts}
        \cup {Obj(<<Member("label", Str("Software"))>>),
              Obj(<<Member("amount", Num(0))>>),
              LabelledItem(Str("n/a"))}

NotCalled == Outcome("not called", <<>>)

RECURSIVE ItemCount(_, _)
\* the number of items in the categories of the sections from member i on
ItemCount(sections, i) ==
    IF i > Len(sections) THEN 0
    ELSE LET cats == sections[i].val.members
             RECURSIVE Count(_)
             Count(j) == IF j > Len(cats) THEN 0
                         ELSE Len(cats[j].val.elems) + Count(j + 1)
         IN  Count(1) + ItemCount(sections, i + 1)

\* the response names a section
AddSection(key) ==
    /\ rendered = NotCalled
    /\ ~Has(data_dict, key)
    /\ data_dict' = SetItem(data_dict, key, Obj(<<>>))
    /\ UNCHANGED <<rendered, json_str, conversion, stage, result_json, outcome,
                   response, pdf_file>>

\* the response names a category of a section
AddCategory(key, category) ==
    /\ rendered = NotCalled
    /\ Has(data_dict, key)
    /\ ~Has(Lookup(data_dict, key), category)
    /\ data_dict' = SetItem(data_dict, key,
                        SetItem(Lookup(data_dict, key), category, Arr(<<>>)))
    /\ UNCHANGED <<rendered, json_str, conversion, stage, result_json, outcome,
                   response, pdf_file>>

\* the response lists one more record in a category
AddItem(key, category, item) ==
    /\ rendered = NotCalled
    /\ Has(data_dict, key)
    /\ Has(Lookup(data_dict, key), category)
    /\ ItemCount(data_dict.members, 1) < MaxItems
    /\ LET section == Lookup(data_dict, key)
           items == Lookup(section, category)
       IN  data_dict' = SetItem(data_dict, key,
                            SetItem(section, category, Arr(Append(items.elems, item))))
    /\ UNCHANGED <<rendered, json_str, conversion, stage, result_json, outcome,
                   response, pdf_file>>

\* write_to_pdf(data_dict, output_path)
WriteToPdf ==
    /\ rendered = NotCalled
    /\ rendered' = write_to_pdf(data_dict)
    /\ UNCHANGED <<data_dict, json_str, conversion, stage, result_json, outcome,
                   response, pdf_file>>

InitRender ==
    /\ data_dict = Obj(<<>>)
    /\ rendered = NotCalled
    /\ json_str = <<>>
    /\ conversion = NotConverted
    /\ stage = <<>>
    /\ result_json = <<>>
    /\ outcome = <<>>
    /\ response = <<>>
    /\ pdf_file = NoReport

NextRender ==
    \/ \E key \in SectionKeys : AddSection(key)
    \/ \E key \in SectionKeys, category \in CategoryNames : AddCategory(key, category)
    \/ \E key \in SectionKeys, category \in CategoryNames, item \in ItemChoices :
          AddItem(key, category, item)
    \/ WriteToPdf

SpecRender == InitRender /\ [][NextRender]_vars

----------------------------------------------------------------------------
(* SpecConvert: the pipeline on every short text and on whole responses *)

MaxTextLen == 7

Alphabet == {"{", "}", "\"", ":", "1"}
Texts == UNION {[1..n -> Alphabet] : n \in 0..MaxTextLen}

Quoted(word) == <<"\"", word, "\"">>

\* {"label": "License", "amount": <amount>}
License(amount) ==
    <<"{">> \o Quoted("label") \o <<":", " ">> \o Quoted("License") \o <<",", " ">>
        \o Quoted("amount") \o <<":", " ">> \o amount \o <<"}">>

\* {"ATTIVO": {"B) Software": [<item>]}}
Software(item) ==
    <<"{">> \o Quoted("ATTIVO") \o <<":", " ", "{">> \o Quoted("B) Software")
        \o <<":", " ", "[">> \o item \o <<"]", "}", "}">>

\* Here is the result: {"PASSIVO": {}}\nThanks
EmptyPassivo ==
    <<"Here is the result", ":", " ", "{">> \o Quoted("PASSIVO")
        \o <<":", " ", "{", "}", "}", "\n", "Thanks">>

\* one section, one category, one item
OneLicense == Software(License(<<"3", "0", "4", "1">>))

\* the same response cut short before the "]}}" that ends it
CutShort == SubSeq(OneLicense, 1, Len(OneLicense) - 3)

\* an item whose amount is null
NullAmount == Software(License(<<"null">>))

\* both sections, PASSIVO first, inside a triple-quote wrapper
BothSections ==
    <<"'", "'", "'", "{">> \o Quoted("PASSIVO") \o <<":", "{">> \o Quoted("D) Debiti")
        \o <<":", "[", "{">> \o Quoted("label") \o <<":">> \o Quoted("Fornitori")
        \o <<",">> \o Quoted("amount") \o <<":", "-", "1", "0", "0", "0", "}", "]", "}", ",">>
        \o Quoted("ATTIVO") \o <<":", "{", "}", "}", "'", "'", "'">>

\* no JSON at all
Apology == <<"Sorry, I cannot classify this document">>

\* a category name that holds a brace
BraceInName ==
    <<"{">> \o Quoted("ATTIVO") \o <<":", "{", "\"", "Crediti ", "{", "2023", "\"", ":",
        "[", "]", "}", "}">>

Responses ==
    {EmptyPassivo, OneLicense, CutShort, NullAmount, BothSections, Apology, BraceInName}

\* result_json = extract_json(result_json); write_to_pdf(result_json, pdf_path)
Convert ==
    /\ conversion = NotConverted
    /\ conversion' = Conversion(json_str)
    /\ UNCHANGED <<data_dict, rendered, json_str, stage, result_json, outcome,
                   response, pdf_file>>

InitConvert ==
    /\ json_str \in Texts \cup Responses
    /\ conversion = NotConverted
    /\ data_dict = Obj(<<>>)
    /\ rendered = NotCalled
    /\ stage = <<>>
    /\ result_json = <<>>
    /\ outcome = <<>>
    /\ response = <<>>
    /\ pdf_file = NoReport

NextConvert == Convert

SpecConvert == InitConvert /\ [][NextConvert]_vars

----------------------------------------------------------------------------
(* SpecApp: upload and download requests against the one output file *)

NumRequests == 2

Requests == 1..NumRequests

\* what classify_balance_sheet may return for an uploaded document
Uploads == {EmptyPassivo, OneLicense, CutShort, NullAmount, BothSections}

Flashes == {"No file part", "No selected file", "Allowed file type is .docx"}

Redirect(flash) == [kind |-> "redirect", flash |-> flash]
Page(template) == [kind |-> "page", template |-> template]
ServerError(exc) == [kind |-> "error", exc |-> exc]
Attachment(body) == [kind |-> "file", body |-> body]
NoResponse == [kind |-> "none"]

\* upload_file, POST without a usable .docx file: flash and redirect (lines 23-29
\* and 42-44)
UploadRefused(r, flash) ==
    /\ stage[r] = "idle"
    /\ response' = [response EXCEPT ![r] = Redirect(flash)]
    /\ UNCHANGED <<data_dict, rendered, json_str, conversion, stage, result_json,
                   outcome, pdf_file>>

\* upload_file, lines 30-36: the file is saved and read, and the generation
\* service answers with text
UploadClassified(r, text) ==
    /\ stage[r] = "idle"
    /\ stage' = [stage EXCEPT ![r] = "classified"]
    /\ result_json' = [result_json EXCEPT ![r] = text]
    /\ UNCHANGED <<data_dict, rendered, json_str, conversion, outcome, response,
                   pdf_file>>

\* upload_file, lines 37-41: extract_json, write_to_pdf to the fixed pdf_path, and
\* the result page; an exception leaves the handler
UploadConverted(r) ==
    /\ stage[r] = "classified"
    /\ outcome' = [outcome EXCEPT ![r] = Conversion(result_json[r])]
    /\ pdf_file' = IF outcome'[r].report # NoReport THEN outcome'[r].report
                   ELSE pdf_file
    /\ response' = [response EXCEPT ![r] =
                       IF outcome'[r].raised = NoError THEN Page("result.html")
                       ELSE ServerError(outcome'[r].raised)]
    /\ stage' = [stage EXCEPT ![r] = "answered"]
    /\ UNCHANGED <<data_dict, rendered, json_str, conversion, result_json>>

\* download_pdf: the file at the fixed pdf_path, or a redirect when there is none
DownloadPdf(r) ==
    /\ response' = [response EXCEPT ![r] =
                      IF pdf_file # NoReport THEN Attachment(pdf_file)
                      ELSE Redirect("PDF not found. Please upload and process a file first.")]
    /\ UNCHANGED <<data_dict, rendered, json_str, conversion, stage, result_json,
                   outcome, pdf_file>>

InitApp ==
    /\ stage = [r \in Requests |-> "idle"]
    /\ result_json = [r \in Requests |-> <<>>]
    /\ outcome = [r \in Requests |-> NotConverted]
    /\ response = [r \in Requests |-> NoResponse]
    /\ pdf_file = NoReport
    /\ data_dict = Obj(<<>>)
    /\ rendered = NotCalled
    /\ json_str = <<>>
    /\ conversion = NotConverted

NextApp ==
    \/ \E r \in Requests, flash \in Flashes : UploadRefused(r, flash)
    \/ \E r \in Requests, text \in Uploads : UploadClassified(r, text)
    \/ \E r \in Requests : UploadConverted(r)
    \/ \E r \in Requests : DownloadPdf(r)

SpecApp == InitApp /\ [][NextApp]_vars

----------------------------------------------------------------------------
(* Reading a report: what the claims about write_to_pdf look at *)

Done == rendered # NotCalled
Built == Done /\ rendered.exc = NoError

IsSectionTitle(e) == e.kind = "Paragraph" /\ e.style = "SectionTitle"
IsCategoryHeader(e) == e.kind = "Paragraph" /\ e.style = "SubsectionTitle"
IsBanner(e) == e.kind = "Table" /\ Len(e.rows) = 1
IsCategoryTable(e) == e.kind = "Table" /\ Len(e.rows) > 1

SectionTitleOf(key) == IF key = "ATTIVO" THEN "ATTIVO (Assets)"
                       ELSE "PASSIVO (Liabilities & Equity)"
BannerLabelOf(key) == IF key = "ATTIVO" THEN "TOTAL ATTIVO" ELSE "TOTAL PASSIVO"

Breaks(es) == {i \in 1..Len(es) : es[i] = PageBreak}

\* the elements of a built report that belong to a section: those between the
\* title block and the page break, or those after the page break
PartOf(es, key) ==
    LET p == CHOOSE i \in Breaks(es) : TRUE
    IN  IF key = "ATTIVO" THEN SubSeq(es, 3, p - 1) ELSE SubSeq(es, p + 1, Len(es))

HeadersOf(es, key) == SelectSeq(PartOf(es, key), IsCategoryHeader)
TablesOf(es, key) == SelectSeq(PartOf(es, key), IsCategoryTable)
BannersOf(es, key) == SelectSeq(PartOf(es, key), IsBanner)
LastRow(table) == table.rows[Len(table.rows)]

DigitValue(c) == CHOOSE d \in 0..9 : ToString(d) = c

RECURSIVE WholePart(_, _, _)
WholePart(chars, i, acc) ==
    IF i > Len(chars) \/ chars[i] = "." THEN acc
    ELSE IF chars[i] = "," THEN WholePart(chars, i + 1, acc)
    ELSE WholePart(chars, i + 1, 10 * acc + DigitValue(chars[i]))

\* the number a displayed amount stands for
Unformat(chars) ==
    IF chars[1] = "-" THEN 0 - WholePart(chars, 2, 0) ELSE WholePart(chars, 1, 0)

RECURSIVE SumSeq(_)
SumSeq(ns) == IF ns = <<>> THEN 0 ELSE Head(ns) + SumSeq(Tail(ns))

HasItems(member) == Len(member.val.elems) > 0

\* the categories of a section of the input that hold at least one item, in order
FilledCategories(data, key) == SelectSeq(Lookup(data, key).members, HasItems)

\* an item's amount as the claims count it: a missing amount counts 0
AmountOf(item) == IF Has(item, "amount") THEN Lookup(item, "amount").n ELSE 0

Permuted(seq) ==
    {[i \in 1..Len(seq) |-> seq[p[i]]] : p \in Permutations(1..Len(seq))}

\* the documents that differ from data in the order of the categories of section
\* key, or in the order of the items of one of its categories
Rearranged(data, key) ==
    LET section == Lookup(data, key)
    IN  ({SetItem(data, key, Obj(ms)) : ms \in Permuted(section.members)}
         \cup {SetItem(data, key, SetItem(section, section.members[k].key, Arr(es))) :
                 <<k, es>> \in UNION {{<<k, es>> : es \in Permuted(section.members[k].val.elems)} :
                                         k \in 1..Len(section.members)}})
        \ {data}

\* the subtotal shown for each category of a section, and the section's total
SubtotalsIn(part) ==
    LET headers == SelectSeq(part, IsCategoryHeader)
        tables == SelectSeq(part, IsCategoryTable)
    IN  {<<headers[k].text, LastRow(tables[k]).amount>> : k \in 1..Len(tables)}
TotalIn(part) == SelectSeq(part, IsBanner)[1].rows[1].amount
ShownSubtotals(es, key) == SubtotalsIn(PartOf(es, key))
ShownTotal(es, key) == TotalIn(PartOf(es, key))

(* C1: in a built report, each category's subtotal row shows the sum of that
   category's item amounts, the section's total banner shows the sum of the
   subtotals shown, and rearranging the items of a category or the categories of
   a section changes neither a subtotal nor the total. *)
C1_TotalsAreSums ==
    Built =>
        \A key \in SectionKeys :
            Has(data_dict, key) =>
                LET es == rendered.elements
                    tables == TablesOf(es, key)
                    filled == FilledCategories(data_dict, key)
                IN  /\ Len(BannersOf(es, key)) = 1
                    /\ Len(tables) = Len(filled)
                    /\ \A k \in 1..Len(tables) :
                          Unformat(LastRow(tables[k]).amount)
                            = SumSeq([i \in 1..Len(filled[k].val.elems) |->
                                        AmountOf(filled[k].val.elems[i])])
                    /\ Unformat(ShownTotal(es, key))
                          = SumSeq([k \in 1..Len(tables) |->
                                        Unformat(LastRow(tables[k]).amount)])
                    /\ \A other \in Rearranged(data_dict, key) :
                          LET part == Section(other, key, SectionTitleOf(key),
                                              BannerLabelOf(key))
                          IN  /\ part.exc = NoError
                              /\ SubtotalsIn(part.elements) = ShownSubtotals(es, key)
                              /\ TotalIn(part.elements) = ShownTotal(es, key)

\* a built section with two rendered categories of different subtotals
C1_Witness ==
    /\ Built
    /\ \E key \in SectionKeys :
          /\ Has(data_dict, key)
          /\ Len(TablesOf(rendered.elements, key)) = 2
          /\ Cardinality(ShownSubtotals(rendered.elements, key)) = 2
          /\ Unformat(ShownTotal(rendered.elements, key)) # 0

----------------------------------------------------------------------------
(* C2: the layout of the element sequence *)

TitlesAt(es, key) ==
    {i \in 1..Len(es) : es[i] = Paragraph(SectionTitleOf(key), "SectionTitle")}
BannersAt(es, key) ==
    {i \in 1..Len(es) : IsBanner(es[i]) /\ es[i].rows[1].label = Str(BannerLabelOf(key))}

(* C2: the element sequence starts with the title; it holds at most one page
   break, and exactly one once write_to_pdf has built it, whatever sections the
   input has; a section's header and banner occur at most once, header first,
   those of ATTIVO before the page break and those of PASSIVO after it; every
   category element lies between its section's header and banner; a section the
   input lacks contributes neither header nor banner. *)
C2_LayoutOrder ==
    Done =>
        LET es == rendered.elements
        IN  /\ Len(es) >= 2
            /\ es[1] = Title
            /\ \A i \in 2..Len(es) : es[i] # Title /\ ~(i > 2 /\ es[i] = Spacer("0.5cm"))
            /\ Cardinality(Breaks(es)) <= 1
            /\ Built => Cardinality(Breaks(es)) = 1
            /\ \A i \in 1..Len(es) :
                  IsSectionTitle(es[i]) =>
                      \E key \in SectionKeys : i \in TitlesAt(es, key)
            /\ \A i \in 1..Len(es) :
                  IsBanner(es[i]) => \E key \in SectionKeys : i \in BannersAt(es, key)
            /\ \A key \in SectionKeys :
                  LET titles == TitlesAt(es, key)
                      banners == BannersAt(es, key)
                  IN  /\ Cardinality(titles) <= 1
                      /\ Cardinality(banners) <= 1
                      /\ ~Has(data_dict, key) => titles = {} /\ banners = {}
                      /\ Built /\ Has(data_dict, key) => titles # {} /\ banners # {}
                      /\ \A t \in titles, b \in banners : t < b
                      /\ banners # {} => titles # {}
                      /\ \A i \in titles \cup banners :
                            IF key = "ATTIVO" THEN \A p \in Breaks(es) : i < p
                            ELSE \E p \in Breaks(es) : p < i
            /\ Built =>
                  /\ \A i \in 1..Len(es) :
                        IsCategoryHeader(es[i]) \/ IsCategoryTable(es[i]) =>
                            \E key \in SectionKeys :
                                \E t \in TitlesAt(es, key), b \in BannersAt(es, key) :
                                    t < i /\ i < b
                  /\ \A key \in SectionKeys :
                        Has(data_dict, key) =>
                            LET headers == HeadersOf(es, key)
                                filled == FilledCategories(data_dict, key)
                            IN  [k \in 1..Len(headers) |-> headers[k].text]
                                  = [k \in 1..Len(filled) |-> filled[k].key]

\* a built report of an input without ATTIVO whose PASSIVO has a rendered category
C2_Witness ==
    /\ Built
    /\ ~Has(data_dict, "ATTIVO")
    /\ Has(data_dict, "PASSIVO")
    /\ Len(TablesOf(rendered.elements, "PASSIVO")) >= 1
    /\ Cardinality(Breaks(rendered.elements)) = 1

----------------------------------------------------------------------------
(* C5: amounts that are present and not numbers *)

NonNumeric(item) == Has(item, "amount") /\ ~IsNumber(Lookup(item, "amount"))

AllItems(data) ==
    UNION {UNION {{data.members[s].val.members[c].val.elems[i] :
                      i \in 1..Len(data.members[s].val.members[c].val.elems)} :
                  c \in 1..Len(data.members[s].val.members)} :
           s \in 1..Len(data.members)}

\* data with every non-numeric amount replaced by 0
ZeroedItem(item) == IF NonNumeric(item) THEN SetItem(item, "amount", Num(0)) ELSE item
ZeroedCategory(member) ==
    Member(member.key, Arr([i \in 1..Len(member.val.elems) |-> ZeroedItem(member.val.elems[i])]))
ZeroedSection(member) ==
    Member(member.key,
           Obj([c \in 1..Len(member.val.members) |-> ZeroedCategory(member.val.members[c])]))
Zeroed(data) == Obj([s \in 1..Len(data.members) |-> ZeroedSection(data.members[s])])

(* C5: an item whose amount is present but not numeric is treated as amount 0:
   write_to_pdf does not raise, and the report is the one of the same input with
   that amount replaced by 0 (a row of 0.00 that adds 0 to subtotal and total). *)
C5_NonNumericAmountIsZero ==
    Done /\ (\E item \in AllItems(data_dict) : NonNumeric(item)) =>
        /\ rendered.exc = NoError
        /\ rendered = write_to_pdf(Zeroed(data_dict))

----------------------------------------------------------------------------
(* C6: which categories are rendered *)

ZeroText == <<"0", ".", "0", "0">>

(* C6: in a built report a category of a present section has a header, a table
   of one row per item and a subtotal row if and only if it holds at least one
   item; a category whose amounts sum to 0 is rendered with a subtotal of 0.00. *)
C6_RenderedIffHasItems ==
    Built =>
        \A key \in SectionKeys :
            Has(data_dict, key) =>
                LET es == rendered.elements
                    part == PartOf(es, key)
                    cats == Lookup(data_dict, key).members
                    headers == HeadersOf(es, key)
                    tables == TablesOf(es, key)
                IN  /\ \A c \in 1..Len(cats) :
                          Cardinality({h \in 1..Len(headers) : headers[h].text = cats[c].key})
                            = IF Len(cats[c].val.elems) >= 1 THEN 1 ELSE 0
                    /\ Len(tables) = Len(headers)
                    /\ \A i \in 1..Len(part) :
                          IsCategoryHeader(part[i]) =>
                              i < Len(part) /\ IsCategoryTable(part[i + 1])
                    /\ \A h \in 1..Len(headers) :
                          LET items == Lookup(Lookup(data_dict, key), headers[h].text).elems
                              sum == SumSeq([i \in 1..Len(items) |-> AmountOf(items[i])])
                          IN  /\ Len(tables[h].rows) = Len(items) + 2
                              /\ LastRow(tables[h]).label = Str("Subtotal")
                              /\ sum = 0 => LastRow(tables[h]).amount = ZeroText

\* a built section with a category without items and a rendered category whose
\* two amounts cancel
C6_Witness ==
    /\ Built
    /\ \E key \in SectionKeys :
          /\ Has(data_dict, key)
          /\ \E c \in 1..Len(Lookup(data_dict, key).members) :
                Len(Lookup(data_dict, key).members[c].val.elems) = 0
          /\ Len(HeadersOf(rendered.elements, key)) = 1
          /\ \E t \in 1..Len(TablesOf(rendered.elements, key)) :
                LET table == TablesOf(rendered.elements, key)[t]
                IN  /\ Len(table.rows) = 4
                    /\ table.rows[2].amount # ZeroText
                    /\ LastRow(table).amount = ZeroText

----------------------------------------------------------------------------
(* C9: the order of sections, categories and rows *)

PresentKey(key) == Has(data_dict, key)

\* the section headers of a report, in order
SectionTitlesIn(es) ==
    LET titles == SelectSeq(es, IsSectionTitle)
    IN  [i \in 1..Len(titles) |-> titles[i].text]

\* categories in the order of the input; in each table the header row, the item
\* rows in the order of the input list, then the one subtotal row
CategoriesAndRowsInInputOrder ==
    \A key \in SectionKeys :
        Has(data_dict, key) =>
            LET es == rendered.elements
                headers == HeadersOf(es, key)
                tables == TablesOf(es, key)
                filled == FilledCategories(data_dict, key)
            IN  /\ Len(headers) = Len(filled)
                /\ Len(tables) = Len(filled)
                /\ \A k \in 1..Len(filled) :
                      LET items == filled[k].val.elems
                          rows == tables[k].rows
                      IN  /\ headers[k].text = filled[k].key
                          /\ Len(rows) = Len(items) + 2
                          /\ rows[1].label = Str("Description")
                          /\ \A i \in 1..Len(items) :
                                /\ rows[i + 1].label = Get(items[i], "label", Str(""))
                                /\ Unformat(rows[i + 1].amount) = AmountOf(items[i])
                          /\ rows[Len(rows)].label = Str("Subtotal")
                          /\ \A i \in 1..(Len(rows) - 1) : rows[i].label # Str("Subtotal")

(* C9 as stated: a built report shows the sections in the order of the input's
   top-level keys, the categories in the order of the input, and the item rows
   in the order of the input list with the subtotal row last. *)
C9_InputOrderAtEveryLevel ==
    Built =>
        /\ SectionTitlesIn(rendered.elements)
              = [i \in 1..Len(data_dict.members) |->
                    SectionTitleOf(data_dict.members[i].key)]
        /\ CategoriesAndRowsInInputOrder

(* C9 as amended: a built report shows ATTIVO before PASSIVO whatever the order
   of the input's top-level keys; within a section the categories keep the order
   of the input, and within a category the item rows keep the order of the input
   list, followed by the category's one subtotal row as the last row. *)
C9_FixedSectionsInputOrderBelow ==
    Built =>
        /\ SectionTitlesIn(rendered.elements)
              = [i \in 1..Len(SelectSeq(<<"ATTIVO", "PASSIVO">>, PresentKey)) |->
                    SectionTitleOf(SelectSeq(<<"ATTIVO", "PASSIVO">>, PresentKey)[i])]
        /\ CategoriesAndRowsInInputOrder

\* a built report of an input that names PASSIVO before ATTIVO and has a
\* category of two different rows
C9_Witness ==
    /\ Built
    /\ Len(data_dict.members) = 2
    /\ data_dict.members[1].key = "PASSIVO"
    /\ \E key \in SectionKeys :
          \E t \in 1..Len(TablesOf(rendered.elements, key)) :
              LET rows == TablesOf(rendered.elements, key)[t].rows
              IN  Len(rows) = 4 /\ rows[2] # rows[3]

----------------------------------------------------------------------------
(* C10: items that lack a key *)

(* C10: when every amount that is present is a number, write_to_pdf does not
   fail; an item without a label has a row with the empty label, an item without
   an amount has a row of 0.00 and adds 0 to its subtotal and to the section
   total, and a category's table has one row per item plus the header row and
   the subtotal row. *)
C10_MissingKeysDefault ==
    Done /\ (\A item \in AllItems(data_dict) : ~NonNumeric(item)) =>
        /\ rendered.exc = NoError
        /\ \A key \in SectionKeys :
              Has(data_dict, key) =>
                  LET es == rendered.elements
                      tables == TablesOf(es, key)
                      filled == FilledCategories(data_dict, key)
                      Present(item) == IF Has(item, "amount")
                                       THEN Lookup(item, "amount").n ELSE 0
                      Sub(k) == SumSeq([i \in 1..Len(filled[k].val.elems) |->
                                           Present(filled[k].val.elems[i])])
                  IN  /\ Len(tables) = Len(filled)
                      /\ \A k \in 1..Len(filled) :
                            LET items == filled[k].val.elems
                                rows == tables[k].rows
                            IN  /\ Len(rows) = Len(items) + 2
                                /\ \A i \in 1..Len(items) :
                                      /\ ~Has(items[i], "label") =>
                                            rows[i + 1].label = Str("")
                                      /\ ~Has(items[i], "amount") =>
                                            rows[i + 1].amount = ZeroText
                                /\ Unformat(LastRow(tables[k]).amount) = Sub(k)
                      /\ Unformat(ShownTotal(es, key))
                            = SumSeq([k \in 1..Len(filled) |-> Sub(k)])

\* a built category with an item that lacks the label and one that lacks the amount
C10_Witness ==
    /\ Built
    /\ \E key \in SectionKeys :
          /\ Has(data_dict, key)
          /\ \E k \in 1..Len(FilledCategories(data_dict, key)) :
                LET items == FilledCategories(data_dict, key)[k].val.elems
                IN  /\ \E i \in 1..Len(items) : ~Has(items[i], "label")
                    /\ \E i \in 1..Len(items) : ~Has(items[i], "amount")
                    /\ Len(TablesOf(rendered.elements, key)[k].rows) = 4

----------------------------------------------------------------------------
(* C3, C4: what extract_json does with a response *)

Ran == conversion # NotConverted
Extracted == Ran /\ conversion.calls = <<"extract_json", "write_to_pdf">>

BraceFree(text) == \A i \in 1..Len(text) : text[i] \notin {"{", "}"}

Count(text, char) == Cardinality({i \in 1..Len(text) : text[i] = char})

\* the tokens from the first "{" of the text to its last "}", if that comes later
HasCandidate(text) ==
    \E i, j \in 1..Len(text) : i < j /\ text[i] = "{" /\ text[j] = "}"
Candidate(text) ==
    LET i == CHOOSE i \in 1..Len(text) :
                 text[i] = "{" /\ \A k \in 1..(i - 1) : text[k] # "{"
        j == CHOOSE j \in 1..Len(text) :
                 text[j] = "}" /\ \A k \in (j + 1)..Len(text) : text[k] # "}"
    IN  SubSeq(text, i, j)

\* position i of the text lies inside a double-quoted string of the text
InString(text, i) ==
    text[i] # "\"" /\ Count(SubSeq(text, 1, i), "\"") % 2 = 1

\* the number of tokens char of the text outside its double-quoted strings
CountOutside(text, char) ==
    Cardinality({i \in 1..Len(text) : text[i] = char /\ ~InString(text, i)})

(* C3: when the text is one well-formed JSON object with brace-free text before
   and after it, extract_json returns that object; when no "{" of the text is
   followed by a "}", extract_json raises ValueError and returns nothing. *)
C3_ExtractsTheOneObject ==
    Ran =>
        /\ \A i \in 1..Len(json_str) :
              \A j \in i..Len(json_str) :
                  LET object == SubSeq(json_str, i, j)
                  IN  /\ BraceFree(SubSeq(json_str, 1, i - 1))
                      /\ BraceFree(SubSeq(json_str, j + 1, Len(json_str)))
                      /\ object[1] = "{"
                      /\ json_loads(object).ok
                      => Extracted /\ conversion.value = json_loads(object).val
        /\ ~HasCandidate(json_str) =>
              /\ conversion.raised = "ValueError"
              /\ conversion.calls = <<"extract_json">>
              /\ conversion.value = Null

\* an object with a member, extracted from between two pieces of commentary
C3_Witness ==
    /\ Extracted
    /\ ~BraceFree(json_str)
    /\ json_str[1] \notin {"{", "'", "\""}
    /\ json_str[Len(json_str)] \notin {"}", "'", "\""}
    /\ Len(conversion.value.members) >= 1

(* C4 as stated: when the braces of the response are unbalanced, extract_json
   raises, the exception leaves the pipeline unchanged, write_to_pdf is not
   called and no report is written. *)
C4_UnbalancedBracesFail ==
    Ran /\ Count(json_str, "{") # Count(json_str, "}") =>
        /\ conversion.raised \in {"ValueError", "JSONDecodeError"}
        /\ conversion.calls = <<"extract_json">>
        /\ conversion.report = NoReport

(* C4 as amended: when the response has no "{" followed by a "}", or the braces
   between its first "{" and its last "}" are unbalanced even without those
   inside double-quoted strings, extract_json raises (ValueError or its subclass
   JSONDecodeError), that exception leaves the pipeline, write_to_pdf is not
   called and no report is written. *)
C4_UnbalancedCandidateFails ==
    Ran /\ (~HasCandidate(json_str)
            \/ CountOutside(Candidate(json_str), "{")
                  # CountOutside(Candidate(json_str), "}")) =>
        /\ conversion.raised \in {"ValueError", "JSONDecodeError"}
        /\ conversion.calls = <<"extract_json">>
        /\ conversion.report = NoReport
        /\ conversion.value = Null

\* a response cut short: more "{" than "}" between the first "{" and the last "}"
C4_Witness ==
    /\ Ran
    /\ HasCandidate(json_str)
    /\ CountOutside(Candidate(json_str), "{") > CountOutside(Candidate(json_str), "}")
    /\ Count(json_str, "[") > Count(json_str, "]")
    /\ conversion.raised = "JSONDecodeError"
    /\ conversion.report = NoReport

----------------------------------------------------------------------------
(* C7: a section without categories *)

EmptySection(data, key) == Has(data, key) /\ Lookup(data, key) = Obj(<<>>)

(* C7: when the extracted object has a section without categories, a report that
   is built shows for it the section header followed by a total banner of 0.00
   and nothing else; and when every section of the object is such a section,
   extraction and rendering both succeed. *)
C7_EmptySectionHeaderAndZeroBanner ==
    Extracted =>
        /\ \A key \in SectionKeys :
              EmptySection(conversion.value, key) /\ conversion.raised = NoError =>
                  /\ conversion.report # NoReport
                  /\ PartOf(conversion.report, key)
                        = <<Paragraph(SectionTitleOf(key), "SectionTitle"),
                            Table(<<Row(Str(BannerLabelOf(key)), ZeroText)>>)>>
        /\ (\A key \in SectionKeys :
                Has(conversion.value, key) => EmptySection(conversion.value, key))
              => conversion.raised = NoError /\ conversion.report # NoReport

\* the response "Here is the result: {"PASSIVO": {}} Thanks", converted
C7_Witness ==
    /\ Extracted
    /\ json_str[1] # "{"
    /\ json_str[Len(json_str)] # "}"
    /\ EmptySection(conversion.value, "PASSIVO")
    /\ ~Has(conversion.value, "ATTIVO")
    /\ conversion.report # NoReport

----------------------------------------------------------------------------
(* C8: whose report a conversion leaves and a download serves *)

(* C8: conversions share no state: the report a conversion wrote stays the
   content of its output file whatever other conversions do, and a download
   answered after a conversion serves the report of that conversion's own
   input. *)
C8_ReportIsTheConversionsOwn ==
    \A r \in Requests :
        stage[r] = "answered" =>
            /\ outcome[r].report # NoReport => pdf_file = outcome[r].report
            /\ response[r].kind = "file" =>
                  response[r].body = outcome[r].report

====
